---------------------------- MODULE Spec2Model ----------------------------
(***************************************************************************)
(* A model of rbrox/NueroChatBot.                                          *)
(*                                                                         *)
(*   src/eeg.py  plot_eeg_signals_with_avd: field check, trial and channel *)
(*               validation, label and signal extraction, per-channel      *)
(*               normalisation (the plot loop).                            *)
(*   src/app.py  the chat session: on_click_callback, generate_report,     *)
(*               end_conversation over st.session_state.                   *)
(*                                                                         *)
(* Floating-point values are modelled as exact rationals <<n, d>> (d > 0,  *)
(* lowest terms) extended with the IEEE-754 special values numpy produces  *)
(* on a division by zero: <<1, 0>> = +inf, <<-1, 0>> = -inf, <<0, 0>> = NaN.*)
(***************************************************************************)
EXTENDS Integers, Sequences, FiniteSets, TLC

VARIABLES
    \* ---- src/eeg.py: one call of plot_eeg_signals_with_avd
    data,               \* the unpickled dataset (line 21)
    trial_number,       \* argument
    channels_to_plot,   \* argument
    zoom_y,             \* argument
    pc,                 \* position in the function
    error,              \* the exception raised, or NoError
    valence,            \* line 43 (<<>> until assigned)
    arousal,            \* line 44 (<<>> until assigned)
    selected_signals,   \* line 47 (<<>> until assigned)
    plotted,            \* the normalized_signal of each ax.plot call (line 69)
    \* ---- src/app.py: one Streamlit session
    history,            \* st.session_state.history
    streaming_response, \* st.session_state.streaming_response
    final_report,       \* st.session_state.final_report
    requests,           \* the chat completions the remote client served
    remote_failed       \* whether some remote call raised

eegVars  == <<data, trial_number, channels_to_plot, zoom_y, pc, error,
              valence, arousal, selected_signals, plotted>>
chatVars == <<history, streaming_response, final_report, requests, remote_failed>>
vars     == <<data, trial_number, channels_to_plot, zoom_y, pc, error,
              valence, arousal, selected_signals, plotted,
              history, streaming_response, final_report, requests, remote_failed>>

---------------------------------------------------------------------------
\* Bounds of the model.

MaxTrials == 2
MaxChannels == 2
MaxChannelList == 2
MaxSends == 2
MaxChunks == 2

---------------------------------------------------------------------------
\* Floating-point values.

AbsInt(n) == IF n < 0 THEN -n ELSE n

SignInt(n) == IF n < 0 THEN -1 ELSE IF n > 0 THEN 1 ELSE 0

RECURSIVE GCD(_, _)
GCD(a, b) == IF b = 0 THEN a ELSE GCD(b, a % b)

\* The finite value n / d (d # 0), in lowest terms with a positive denominator.
R(n, d) ==
    LET g == GCD(AbsInt(n), AbsInt(d))
        s == IF d < 0 THEN -1 ELSE 1
    IN  <<(s * n) \div g, (s * d) \div g>>

NaN == <<0, 0>>
PInf == <<1, 0>>
NInf == <<-1, 0>>

IsFinite(x) == x[2] # 0
IsNaN(x) == x = NaN

FNeg(x) == <<-x[1], x[2]>>

FAbs(x) == <<AbsInt(x[1]), x[2]>>

FAdd(a, b) ==
    IF IsNaN(a) \/ IsNaN(b) THEN NaN
    ELSE IF ~IsFinite(a) /\ ~IsFinite(b) THEN (IF a = b THEN a ELSE NaN)
    ELSE IF ~IsFinite(a) THEN a
    ELSE IF ~IsFinite(b) THEN b
    ELSE R(a[1] * b[2] + b[1] * a[2], a[2] * b[2])

FSub(a, b) == FAdd(a, FNeg(b))

FMul(a, b) ==
    IF IsNaN(a) \/ IsNaN(b) THEN NaN
    ELSE IF ~IsFinite(a) \/ ~IsFinite(b)
        THEN (IF a[1] = 0 \/ b[1] = 0 THEN NaN ELSE <<SignInt(a[1]) * SignInt(b[1]), 0>>)
    ELSE R(a[1] * b[1], a[2] * b[2])

\* IEEE-754 division as numpy evaluates it (a warning, never an exception).
FDiv(a, b) ==
    IF IsNaN(a) \/ IsNaN(b) THEN NaN
    ELSE IF ~IsFinite(a) /\ ~IsFinite(b) THEN NaN
    ELSE IF ~IsFinite(b) THEN R(0, 1)
    ELSE IF ~IsFinite(a) THEN (IF b[1] < 0 THEN FNeg(a) ELSE a)
    ELSE IF b[1] = 0 THEN (IF a[1] = 0 THEN NaN ELSE <<SignInt(a[1]), 0>>)
    ELSE R(a[1] * b[2], a[2] * b[1])

\* a <= b on values that are not NaN.
FLe(a, b) ==
    IF a = NInf \/ b = PInf THEN TRUE
    ELSE IF a = PInf \/ b = NInf THEN FALSE
    ELSE a[1] * b[2] <= b[1] * a[2]

FLt(a, b) == FLe(a, b) /\ a # b

\* np.min / np.max of a non-empty array: NaN propagates.
NpMin(signal) ==
    IF \E k \in 1..Len(signal) : IsNaN(signal[k]) THEN NaN
    ELSE signal[CHOOSE k \in 1..Len(signal) :
                    \A j \in 1..Len(signal) : FLe(signal[k], signal[j])]

NpMax(signal) ==
    IF \E k \in 1..Len(signal) : IsNaN(signal[k]) THEN NaN
    ELSE signal[CHOOSE k \in 1..Len(signal) :
                    \A j \in 1..Len(signal) : FLe(signal[j], signal[k])]

---------------------------------------------------------------------------
\* The dataset (the pickle's content) and the call's arguments.

\* Base waveforms the datasets are built from: empty, single-sample, flat,
\* a ramp, and two unordered ones.
Waveforms == { <<>>, <<7>>, <<5, 5, 5>>, <<0, 1, 2, 3>>, <<3, 1, 2>>, <<-2, 1>> }

\* The sample at (trial t, channel c, time k): every (t, c) of a dataset holds
\* a different scaled and shifted copy of the waveform.
Cell(w, t, c, k) == R(w[k] * (c + 1) + t, 1)

\* data['data']: shape (trial, channel, time), 0-indexed trial and channel.
EegArray(w, T, C) ==
    [t \in 0..(T - 1) |-> [c \in 0..(C - 1) |->
        [k \in 1..Len(w) |-> Cell(w, t, c, k)]]]

\* data['labels']: shape (trial, 4): valence, arousal, dominance, liking.
LabelArray(T) ==
    [t \in 0..(T - 1) |-> <<R(10 + t, 1), R(41 + 2 * t, 2), R(30 + t, 1), R(40 + t, 1)>>]

FullDataset(w, T, C) ==
    [keys |-> {"data", "labels"}, shape |-> <<T, C, Len(w)>>,
     data |-> EegArray(w, T, C), labels |-> LabelArray(T)]

\* The same pickle with one or both keys missing.
Restrict(d, ks) == [d EXCEPT !.keys = ks]

FullDatasets ==
    { FullDataset(w, T, C) : w \in Waveforms, T \in 1..MaxTrials, C \in 1..MaxChannels }

BrokenDatasets ==
    { Restrict(FullDataset(<<0, 1, 2, 3>>, T, MaxChannels), ks) :
        T \in 1..MaxTrials, ks \in {{}, {"data"}, {"labels"}} }

Datasets == FullDatasets \cup BrokenDatasets

SeqsUpTo(S, n) == UNION { [1..m -> S] : m \in 0..n }

Zooms == { R(-1, 1), R(0, 1), R(1, 2), R(1, 1), R(3, 2), R(2, 1) }

NoError == [type |-> "none", at |-> "none"]
Raise(type, at) == [type |-> type, at |-> at]

---------------------------------------------------------------------------
\* src/eeg.py, plot_eeg_signals_with_avd.

\* numpy indexing along an axis of length n: a negative index counts from the end.
Wrap(i, n) == IF i < 0 THEN i + n ELSE i

\* The field check with `and` in place of `or`.
FieldsMissingBoth(d) == "data" \notin d.keys /\ "labels" \notin d.keys

\* line 28
FieldsMissing(d) == "data" \notin d.keys \/ "labels" \notin d.keys

\* The trial check with `>` in place of `>=`.
TrialInvalidOffByOne(t, shape) == t < 0 \/ t > shape[1]

\* line 35
TrialInvalid(t, shape) == t < 0 \/ t >= shape[1]

\* The channel check without its lower bound.
ChannelInvalidNoLowerBound(c, shape) == c >= shape[2]

\* line 39
ChannelInvalid(c, shape) == c < 0 \/ c >= shape[2]

\* lines 38-40: the loop raises at the first invalid channel.
SomeChannelInvalid(chs, shape) ==
    \E i \in 1..Len(chs) : ChannelInvalid(chs[i], shape)

\* The extraction walking the channel list backwards.
ExtractSignalsReversed(d, t, chs) ==
    [i \in 1..Len(chs) |->
        d.data[Wrap(t, d.shape[1])][Wrap(chs[Len(chs) + 1 - i], d.shape[2])]]

\* line 47
ExtractSignals(d, t, chs) ==
    [i \in 1..Len(chs) |-> d.data[Wrap(t, d.shape[1])][Wrap(chs[i], d.shape[2])]]

\* The centre without the halving.
YCenterNotHalved(y_min, y_max) == FAdd(y_min, y_max)

\* line 64
YCenter(y_min, y_max) == FDiv(FAdd(y_min, y_max), R(2, 1))

\* The range multiplied by the zoom instead of divided by it.
YRangeTimesZoom(y_min, y_max, zoom) == FMul(FSub(y_max, y_min), zoom)

\* line 65
YRange(y_min, y_max, zoom) == FDiv(FSub(y_max, y_min), zoom)

\* lines 63-66, on a non-empty signal
Normalize(signal, zoom) ==
    LET y_min == NpMin(signal)
        y_max == NpMax(signal)
        y_center == YCenter(y_min, y_max)
        y_range == YRange(y_min, y_max, zoom)
    IN  [k \in 1..Len(signal) |-> FDiv(FSub(signal[k], y_center), y_range)]

\* st.session_state after initialize_session_state (lines 18-24); also the
\* session state while the script of src/eeg.py runs.
ChatInit ==
    /\ history = <<>>
    /\ streaming_response = <<>>
    /\ final_report = <<>>
    /\ requests = <<>>
    /\ remote_failed = FALSE

EegInit ==
    /\ data \in Datasets
    /\ trial_number \in -1..data.shape[1]
    /\ channels_to_plot \in SeqsUpTo(-1..data.shape[2], MaxChannelList)
    /\ zoom_y \in Zooms
    /\ pc = "check_fields"
    /\ error = NoError
    /\ valence = <<>>
    /\ arousal = <<>>
    /\ selected_signals = <<>>
    /\ plotted = <<>>

\* The chat application never calls src/eeg.py.
EegIdle ==
    /\ data = FullDataset(<<0, 1, 2, 3>>, 1, 1)
    /\ trial_number = 0
    /\ channels_to_plot = <<0>>
    /\ zoom_y = R(1, 1)
    /\ pc = "not_called"
    /\ error = NoError
    /\ valence = <<>>
    /\ arousal = <<>>
    /\ selected_signals = <<>>
    /\ plotted = <<>>

\* lines 27-32
CheckFields ==
    /\ pc = "check_fields"
    /\ IF FieldsMissing(data)
         THEN /\ pc' = "raised"
              /\ error' = Raise("ValueError", "fields")
         ELSE IF "data" \notin data.keys \/ "labels" \notin data.keys
         THEN /\ pc' = "raised"
              /\ error' = Raise("KeyError", "fields")
         ELSE /\ pc' = "check_trial"
              /\ error' = error
    /\ UNCHANGED <<data, trial_number, channels_to_plot, zoom_y,
                   valence, arousal, selected_signals, plotted>>
    /\ UNCHANGED chatVars

\* lines 34-36
CheckTrial ==
    /\ pc = "check_trial"
    /\ IF TrialInvalid(trial_number, data.shape)
         THEN /\ pc' = "raised"
              /\ error' = Raise("ValueError", "trial")
         ELSE /\ pc' = "check_channels"
              /\ error' = error
    /\ UNCHANGED <<data, trial_number, channels_to_plot, zoom_y,
                   valence, arousal, selected_signals, plotted>>
    /\ UNCHANGED chatVars

\* lines 38-40
CheckChannels ==
    /\ pc = "check_channels"
    /\ IF SomeChannelInvalid(channels_to_plot, data.shape)
         THEN /\ pc' = "raised"
              /\ error' = Raise("ValueError", "channel")
         ELSE /\ pc' = "extract_labels"
              /\ error' = error
    /\ UNCHANGED <<data, trial_number, channels_to_plot, zoom_y,
                   valence, arousal, selected_signals, plotted>>
    /\ UNCHANGED chatVars

\* lines 42-44
ExtractLabels ==
    /\ pc = "extract_labels"
    /\ IF trial_number < -data.shape[1] \/ trial_number >= data.shape[1]
         THEN /\ pc' = "raised"
              /\ error' = Raise("IndexError", "labels")
              /\ UNCHANGED <<valence, arousal>>
         ELSE /\ valence' = data.labels[Wrap(trial_number, data.shape[1])][1]
              /\ arousal' = data.labels[Wrap(trial_number, data.shape[1])][2]
              /\ pc' = "extract_signals"
              /\ error' = error
    /\ UNCHANGED <<data, trial_number, channels_to_plot, zoom_y,
                   selected_signals, plotted>>
    /\ UNCHANGED chatVars

\* lines 46-48: the list comprehension, then selected_signals[0]
ExtractEegSignals ==
    /\ pc = "extract_signals"
    /\ IF \E i \in 1..Len(channels_to_plot) :
             \/ channels_to_plot[i] < -data.shape[2]
             \/ channels_to_plot[i] >= data.shape[2]
         THEN /\ pc' = "raised"
              /\ error' = Raise("IndexError", "signals")
              /\ UNCHANGED selected_signals
         ELSE /\ selected_signals' = ExtractSignals(data, trial_number, channels_to_plot)
              /\ IF Len(channels_to_plot) = 0
                   THEN /\ pc' = "raised"
                        /\ error' = Raise("IndexError", "time_steps")
                   ELSE /\ pc' = "plot_loop"
                        /\ error' = error
    /\ UNCHANGED <<data, trial_number, channels_to_plot, zoom_y,
                   valence, arousal, plotted>>
    /\ UNCHANGED chatVars

\* lines 61-69: one iteration of the loop over selected_signals
PlotSignal ==
    /\ pc = "plot_loop"
    /\ Len(plotted) < Len(selected_signals)
    /\ LET signal == selected_signals[Len(plotted) + 1]
       IN  IF Len(signal) = 0
             THEN /\ pc' = "raised"
                  /\ error' = Raise("ValueError", "zero_size_reduction")
                  /\ UNCHANGED plotted
             ELSE /\ plotted' = Append(plotted, Normalize(signal, zoom_y))
                  /\ UNCHANGED <<pc, error>>
    /\ UNCHANGED <<data, trial_number, channels_to_plot, zoom_y,
                   valence, arousal, selected_signals>>
    /\ UNCHANGED chatVars

\* lines 71-94: the loop is over; the figure is saved and the function returns
SavePlot ==
    /\ pc = "plot_loop"
    /\ Len(plotted) = Len(selected_signals)
    /\ pc' = "done"
    /\ UNCHANGED <<data, trial_number, channels_to_plot, zoom_y, error,
                   valence, arousal, selected_signals, plotted>>
    /\ UNCHANGED chatVars

Init == EegInit /\ ChatInit

Next ==
    \/ CheckFields
    \/ CheckTrial
    \/ CheckChannels
    \/ ExtractLabels
    \/ ExtractEegSignals
    \/ PlotSignal
    \/ SavePlot

Spec == Init /\ [][Next]_vars

---------------------------------------------------------------------------
\* src/app.py: the chat session.  Text is a sequence of characters.

Concat(a, b) == a \o b

\* class Message (lines 11-15)
Message(origin, message) == [origin |-> origin, message |-> message]

\* What the text input can hold when Send is clicked.
Prompts == { <<>>, <<"h">> }

\* chunk.choices[0].delta.content of one streamed chunk: None or a string.
NoneContent == [is_none |-> TRUE, text |-> <<>>]
Str(text) == [is_none |-> FALSE, text |-> text]
Contents == { NoneContent, Str(<<>>), Str(<<"x">>), Str(<<"y">>) }

Streams == SeqsUpTo(Contents, MaxChunks)

\* The summaries the remote model can answer a report request with.
Summaries == { <<"s">>, <<"t">> }

\* line 45: `if content`
Truthy(content) == ~content.is_none /\ content.text # <<>>

\* lines 43-47: the chunks the generator yields, in order
RECURSIVE Yielded(_)
Yielded(stream) ==
    IF stream = <<>> THEN <<>>
    ELSE IF Truthy(Head(stream)) THEN <<Head(stream).text>> \o Yielded(Tail(stream))
    ELSE Yielded(Tail(stream))

\* lines 28, 46: st.session_state.streaming_response after the chunks
RECURSIVE Accumulate(_, _)
Accumulate(acc, chunks) ==
    IF chunks = <<>> THEN acc
    ELSE Accumulate(Concat(acc, Head(chunks)), Tail(chunks))

\* The text the remote model sent over one stream, as the remote sees it.
RECURSIVE SentText(_)
SentText(stream) ==
    IF stream = <<>> THEN <<>>
    ELSE IF Head(stream).is_none THEN SentText(Tail(stream))
    ELSE Head(stream).text \o SentText(Tail(stream))

\* line 52
AppendHuman(h, human_prompt) == Append(h, Message("human", human_prompt))

\* The reply appended only when it is not empty.
AppendAiIfNonEmpty(h, response_content) ==
    IF response_content = <<>> THEN h ELSE Append(h, Message("ai", response_content))

\* line 67
AppendAi(h, response_content) == Append(h, Message("ai", response_content))

\* lines 102-111 (the timestamp is left out)
Report(summary) == <<"Psychiatrist Report", summary>>

Sends == Len(SelectSeq(history, LAMBDA m : m.origin = "human"))

\* lines 50-67, the remote stream completing
on_click_callback ==
    /\ Sends < MaxSends
    /\ \E human_prompt \in Prompts, stream \in Streams :
         LET response_content == Accumulate(<<>>, Yielded(stream))
         IN  /\ history' = AppendAi(AppendHuman(history, human_prompt), response_content)
             /\ streaming_response' = Accumulate(<<>>, Yielded(stream))
             /\ requests' = Append(requests,
                                   [prompt |-> human_prompt, reply |-> SentText(stream)])
    /\ UNCHANGED <<final_report, remote_failed>>
    /\ UNCHANGED eegVars

\* lines 50-59, the remote call raising at create() or while the stream is read:
\* the exception leaves the callback after line 52 has run
on_click_callback_raises ==
    /\ Sends < MaxSends
    /\ \E human_prompt \in Prompts, stream \in Streams :
         /\ history' = AppendHuman(history, human_prompt)
         /\ streaming_response' = Accumulate(<<>>, Yielded(stream))
    /\ remote_failed' = TRUE
    /\ UNCHANGED <<final_report, requests>>
    /\ UNCHANGED eegVars

\* lines 70-112: final_report after generate_report, the remote call answering summary
ReportAfter(h, report, summary) == IF h = <<>> THEN report ELSE Report(summary)

generate_report ==
    /\ \E summary \in Summaries :
         final_report' = ReportAfter(history, final_report, summary)
    /\ UNCHANGED <<history, streaming_response, requests, remote_failed>>
    /\ UNCHANGED eegVars

\* lines 75-93, the remote call raising
generate_report_raises ==
    /\ history # <<>>
    /\ remote_failed' = TRUE
    /\ UNCHANGED <<history, streaming_response, final_report, requests>>
    /\ UNCHANGED eegVars

\* lines 115-118
end_conversation ==
    /\ generate_report      \* line 116
    /\ TRUE                 \* lines 117-118 write no session state

ChatNext ==
    \/ on_click_callback
    \/ on_click_callback_raises
    \/ generate_report
    \/ generate_report_raises
    \/ end_conversation

ChatSpecInit == EegIdle /\ ChatInit

ChatSpec == ChatSpecInit /\ [][ChatNext]_vars


---------------------------------------------------------------------------
\* The claims about src/eeg.py (checked under Spec).

Zero == R(0, 1)
One == R(1, 1)

HasBothFields == {"data", "labels"} \subseteq data.keys
TrialInRange == trial_number \in 0..(data.shape[1] - 1)
ChannelInRange(c) == c \in 0..(data.shape[2] - 1)
AllChannelsInRange ==
    \A i \in 1..Len(channels_to_plot) : ChannelInRange(channels_to_plot[i])
NothingRead ==
    valence = <<>> /\ arousal = <<>> /\ selected_signals = <<>> /\ plotted = <<>>
ZoomPositive == FLt(Zero, zoom_y)
IsConstant(signal) == Len(signal) > 0 /\ NpMin(signal) = NpMax(signal)
NonConstant(signal) == Len(signal) > 0 /\ NpMin(signal) # NpMax(signal)

\* C1: with both fields present and a valid trial, a channel list holding an
\* index outside [0, channel_count) at any position ends in the ValueError of
\* the channel check, and no signal series is ever extracted or plotted.
C1_ChannelValidationAllOrNothing ==
    (HasBothFields /\ TrialInRange /\ ~AllChannelsInRange) =>
        /\ selected_signals = <<>>
        /\ plotted = <<>>
        /\ pc \in {"check_fields", "check_trial", "check_channels", "raised"}
        /\ pc = "raised" => error = Raise("ValueError", "channel")

\* C1 witness: the call was rejected although the first listed channel is valid.
C1_Witness ==
    /\ pc = "raised"
    /\ error = Raise("ValueError", "channel")
    /\ Len(channels_to_plot) = 2
    /\ ChannelInRange(channels_to_plot[1])
    /\ ~ChannelInRange(channels_to_plot[2])

\* C2: with both fields present, a trial index that is negative or >= the
\* trial count ends in the ValueError of the trial check, whatever the channel
\* list, before any label or signal is read.
C2_InvalidTrialRejected ==
    (HasBothFields /\ ~TrialInRange) =>
        /\ NothingRead
        /\ pc \in {"check_fields", "check_trial", "raised"}
        /\ pc = "raised" => error = Raise("ValueError", "trial")

\* C2 witness: trial_number == trial_count was rejected, with a channel list
\* that is itself invalid.
C2_Witness ==
    /\ pc = "raised"
    /\ error = Raise("ValueError", "trial")
    /\ trial_number = data.shape[1]
    /\ ~AllChannelsInRange

\* C3: a valid trial and a non-empty list of valid channels (duplicates
\* allowed) pass every check, and extraction yields one series per requested
\* channel, in the requested order, the i-th being
\* signals[trial_index][channel_indices[i]], of the per-trial sample count.
C3_ExtractionInOrder ==
    (HasBothFields /\ TrialInRange /\ AllChannelsInRange /\ Len(channels_to_plot) > 0) =>
        /\ error.at \notin {"fields", "trial", "channel", "labels", "signals", "time_steps"}
        /\ pc \in {"plot_loop", "done", "raised"} =>
            /\ Len(selected_signals) = Len(channels_to_plot)
            /\ \A i \in 1..Len(channels_to_plot) :
                /\ selected_signals[i] = data.data[trial_number][channels_to_plot[i]]
                /\ Len(selected_signals[i]) = data.shape[3]

\* C3 witness: channels requested out of ascending order were extracted.
C3_Witness ==
    /\ pc = "done"
    /\ channels_to_plot = <<1, 0>>
    /\ trial_number = 1
    /\ data.shape[3] = 4

\* C4: for a non-constant series and zoom > 0 the normalized output has the
\* input's length, its maximum is zoom/2, its minimum -zoom/2,
\* max - min == zoom, and each sample is (sample - (min + max)/2) scaled by
\* zoom / (max - min).
C4_NormalizedRange ==
    \A i \in 1..Len(plotted) :
        (NonConstant(selected_signals[i]) /\ ZoomPositive) =>
            /\ Len(plotted[i]) = Len(selected_signals[i])
            /\ NpMax(plotted[i]) = FDiv(zoom_y, R(2, 1))
            /\ NpMin(plotted[i]) = FNeg(FDiv(zoom_y, R(2, 1)))
            /\ FSub(NpMax(plotted[i]), NpMin(plotted[i])) = zoom_y
            /\ \A k \in 1..Len(plotted[i]) :
                LET lo == NpMin(selected_signals[i])
                    hi == NpMax(selected_signals[i])
                    s2 == FMul(R(2, 1), selected_signals[i][k])
                IN  plotted[i][k] =
                        FDiv(FMul(FSub(FSub(s2, lo), hi), zoom_y),
                             FMul(R(2, 1), FSub(hi, lo)))

\* C4 witness: a non-constant series was normalized with zoom 3/2.
C4_Witness ==
    /\ pc = "done"
    /\ zoom_y = R(3, 2)
    /\ Len(plotted) = 2
    /\ NonConstant(selected_signals[2])

\* C5: zoom is a zoom-out factor: for a non-constant series and zooms
\* 0 < z1 < z2, every sample of normalize(series, z2) is at most as large in
\* absolute value as the same sample of normalize(series, z1).
C5_LargerZoomCompresses ==
    \A i \in 1..Len(plotted) :
        (NonConstant(selected_signals[i]) /\ ZoomPositive) =>
            \A z1 \in Zooms :
                (FLt(Zero, z1) /\ FLt(z1, zoom_y)) =>
                    \A k \in 1..Len(plotted[i]) :
                        FLe(FAbs(plotted[i][k]),
                            FAbs(Normalize(selected_signals[i], z1)[k]))

\* C6: for a constant series and zoom > 0 normalization fails: it never
\* completes and never yields an output (in particular none holding NaN or an
\* infinity).
C6_ConstantSeriesRejected ==
    ZoomPositive =>
        \A i \in 1..Len(selected_signals) :
            IsConstant(selected_signals[i]) => (Len(plotted) < i /\ pc # "done")

\* C7: normalization fails whenever zoom <= 0 or the series is empty: no
\* normalized series is produced in either case.
C7_InvalidArgumentsRejected ==
    \A i \in 1..Len(selected_signals) :
        (~ZoomPositive \/ Len(selected_signals[i]) = 0) =>
            (Len(plotted) < i /\ pc # "done")

\* C8 as stated: for a non-constant series and zoom z > 0, normalizing the
\* normalized series again with zoom 1 reproduces it unchanged.
C8_IdempotentAtZoomOne ==
    \A i \in 1..Len(plotted) :
        (NonConstant(selected_signals[i]) /\ ZoomPositive) =>
            Normalize(plotted[i], One) = plotted[i]

\* C8 as amended: for a non-constant series s and zoom z > 0, normalizing
\* normalize(s, z) again with the same zoom z reproduces it unchanged; with
\* zoom 1 the second pass yields normalize(s, 1), which is normalize(s, z)
\* exactly when z = 1.
C8_IdempotentAtSameZoom ==
    \A i \in 1..Len(plotted) :
        (NonConstant(selected_signals[i]) /\ ZoomPositive) =>
            /\ Normalize(plotted[i], zoom_y) = plotted[i]
            /\ Normalize(plotted[i], One) = Normalize(selected_signals[i], One)
            /\ (Normalize(plotted[i], One) = plotted[i]) <=> (zoom_y = One)

\* C8 witness: a non-constant series was normalized with zoom 2.
C8_Witness ==
    /\ pc = "done"
    /\ zoom_y = R(2, 1)
    /\ Len(plotted) > 0
    /\ NonConstant(selected_signals[1])

\* C9: a dataset lacking 'data' or 'labels' (or both) ends in the ValueError
\* of the field check for every trial index and channel list; the trial and
\* channel checks are never reached and nothing is read.
C9_MissingFieldsRejected ==
    ~HasBothFields =>
        /\ NothingRead
        /\ pc \in {"check_fields", "raised"}
        /\ pc = "raised" => error = Raise("ValueError", "fields")

\* C9 witness: only 'labels' is missing, and the trial and a channel are out
\* of range too.
C9_Witness ==
    /\ pc = "raised"
    /\ error = Raise("ValueError", "fields")
    /\ data.keys = {"data"}
    /\ ~TrialInRange
    /\ ~AllChannelsInRange

---------------------------------------------------------------------------
\* The claim about src/app.py (checked under ChatSpec).

IsPrefix(a, b) == Len(a) <= Len(b) /\ SubSeq(b, 1, Len(a)) = a

\* history is the served requests, in order, as (human, ai) pairs.
PairedHistory ==
    /\ Len(history) = 2 * Len(requests)
    /\ \A k \in 1..Len(requests) :
        /\ history[2 * k - 1] = Message("human", requests[k].prompt)
        /\ history[2 * k] = Message("ai", requests[k].reply)

HistoryStep ==
    /\ IsPrefix(history, history')
    /\ (generate_report \/ generate_report_raises \/ end_conversation) =>
            history' = history
    /\ final_report' # final_report => (history' = history /\ history # <<>>)

\* C10: as long as no remote call has raised, history is the submitted
\* prompts each followed by its reply (even length, human at the odd
\* positions of the 1-indexed sequence, the reply right after it, also when
\* the reply is empty); history only grows by appending; the report
\* operations never change it, and on an empty history they leave
\* final_report unchanged.
C10_HistoryShape ==
    /\ [](~remote_failed => PairedHistory)
    /\ [][HistoryStep]_vars

\* C10 witness: two exchanges, the first with an empty streamed reply, then a
\* report.
C10_Witness ==
    /\ ~remote_failed
    /\ Len(history) = 4
    /\ history[2] = Message("ai", <<>>)
    /\ history[4] = Message("ai", <<"x", "y">>)
    /\ final_report # <<>>

=============================================================================
